---- MODULE Spec2Model ----
(***************************************************************************)
(* A model of app.py: the habit-tracker page.  The script is re-executed   *)
(* from top to bottom on every render pass; get_weather and get_pokemon    *)
(* are memoized by st.cache_data (ttl 10 and 60 minutes), generate_report  *)
(* is called when the button is pressed, and the result area is rendered   *)
(* from the three results.                                                 *)
(*                                                                         *)
(* Python values are tagged records: None, str, int, dict, list.  A raised *)
(* exception is the distinguished value Exc, which every operator          *)
(* propagates until a try/except turns it into the handler's value.        *)
(* Korean literals of the source are written as ASCII placeholders.        *)
(***************************************************************************)
EXTENDS Integers, Sequences, FiniteSets, TLC

VARIABLES weather_cache, pokemon_cache, session_state, page, wlog, plog, fx

vars == <<weather_cache, pokemon_cache, session_state, page, wlog, plog, fx>>

(***************************************************************************)
(* Python values                                                           *)
(***************************************************************************)
None == [k |-> "None"]

Exc == [k |-> "exc"]

PyStr(s) == [k |-> "str", s |-> s]

PyInt(n) == [k |-> "int", n |-> n]

PyDict(f) == [k |-> "dict", f |-> f]

PyList(q) == [k |-> "list", q |-> q]

NoKeys == [x \in {} |-> None]

EmptyDict == PyDict(NoKeys)

\* bool(v): None, 0, "", {} and [] are falsy.
Truthy(v) ==
    CASE v.k = "None" -> FALSE
      [] v.k = "str"  -> v.s # ""
      [] v.k = "int"  -> v.n # 0
      [] v.k = "dict" -> DOMAIN v.f # {}
      [] v.k = "list" -> Len(v.q) > 0
      [] OTHER        -> TRUE

\* d.get(key, dflt): AttributeError on anything that is not a dict.
DictGet(d, key, dflt) ==
    IF d.k # "dict" THEN Exc
    ELSE IF key \in DOMAIN d.f THEN d.f[key] ELSE dflt

\* d[key]: KeyError when missing, TypeError on None or a number.
DictItem(d, key) ==
    IF d.k # "dict" THEN Exc
    ELSE IF key \in DOMAIN d.f THEN d.f[key] ELSE Exc

\* key in d: a key of a dict, an item of a list, TypeError on None or a
\* number.
DictHas(d, key) ==
    CASE d.k = "dict" -> IF key \in DOMAIN d.f THEN PyInt(1) ELSE PyInt(0)
      [] d.k = "list" -> IF \E i \in 1..Len(d.q) : d.q[i] = PyStr(key)
                         THEN PyInt(1) ELSE PyInt(0)
      [] OTHER        -> Exc

\* v[0]: IndexError on an empty list, KeyError on a dict, TypeError on None
\* or a number.
Index0(v) ==
    IF v.k = "list" /\ Len(v.q) > 0 THEN v.q[1] ELSE Exc

\* v or {}
OrEmptyDict(v) ==
    IF v = Exc THEN Exc ELSE IF Truthy(v) THEN v ELSE EmptyDict

\* The except clause of "try: ... except Exception: return None".
ExceptReturnsNoneMutant(v) == v

ExceptReturnsNone(v) == IF v = Exc THEN None ELSE v

(***************************************************************************)
(* HTTP responses.  requests.get either raises (Exc) or returns a response *)
(* with a status code and a body; r.json() raises on a body that is not    *)
(* JSON.                                                                   *)
(***************************************************************************)
HttpOk == 200

NotJson == [k |-> "notjson"]

Response(status, body) == [k |-> "resp", status |-> status, body |-> body]

ResponseJson(r) == IF r.body = NotJson THEN Exc ELSE r.body

(***************************************************************************)
(* get_weather                                                             *)
(***************************************************************************)
\* The dict literal of the return statement; any raising sub-expression
\* aborts the whole literal.
WeatherRecord(city, j) ==
    LET main    == DictGet(j, "main", EmptyDict)
        first   == OrEmptyDict(Index0(DictGet(j, "weather", PyList(<<EmptyDict>>))))
        wind    == DictGet(j, "wind", EmptyDict)
        temp_c  == DictGet(main, "temp", None)
        feels   == DictGet(main, "feels_like", None)
        hum     == DictGet(main, "humidity", None)
        desc    == DictGet(first, "description", None)
        speed   == DictGet(wind, "speed", None)
        icon    == DictGet(first, "icon", None)
    IN  IF Exc \in {temp_c, feels, hum, desc, speed, icon} THEN Exc
        ELSE PyDict([city         |-> PyStr(city),
                     temp_c       |-> temp_c,
                     feels_like_c |-> feels,
                     humidity     |-> hum,
                     desc         |-> desc,
                     wind_mps     |-> speed,
                     icon         |-> icon])

\* The try block of get_weather.
WeatherTry(city, resp) ==
    IF resp = Exc THEN Exc
    ELSE IF resp.status # HttpOk THEN None
    ELSE LET j == ResponseJson(resp)
         IN  IF j = Exc THEN Exc ELSE WeatherRecord(city, j)

\* The undecorated function: the returned value (or Exc if it raises) and
\* the number of GETs it issued.
get_weatherMutant(city, api_key, resp) ==
    [val |-> ExceptReturnsNone(WeatherTry(city, resp)), reqs |-> 1]

get_weather(city, api_key, resp) ==
    IF api_key = "" THEN [val |-> None, reqs |-> 0]
    ELSE [val |-> ExceptReturnsNone(WeatherTry(city, resp)), reqs |-> 1]

(***************************************************************************)
(* get_pokemon                                                             *)
(***************************************************************************)
MinPid == 1

MaxPid == 151

\* random.randint(1, 151)
Pids == MinPid..MaxPid

\* [t["type"]["name"] for t in ... if "type" in t] over the items q.
RECURSIVE TypeNames(_)
TypeNames(q) ==
    IF q = <<>> THEN PyList(<<>>)
    ELSE LET t    == Head(q)
             has  == DictHas(t, "type")
             name == DictItem(DictItem(t, "type"), "name")
             rest == TypeNames(Tail(q))
         IN  IF has = Exc THEN Exc
             ELSE IF has = PyInt(0) THEN rest
             ELSE IF name = Exc \/ rest = Exc THEN Exc
             ELSE PyList(<<name>> \o rest.q)

\* Iterating j.get("types", []) or j.get("stats", []): TypeError on None or
\* a number.
Iterable(v) == v.k = "list"

PokemonTypes(j) ==
    LET ts == DictGet(j, "types", PyList(<<>>))
    IN  IF ~Iterable(ts) THEN Exc ELSE TypeNames(ts.q)

\* stats[key] = val
DictSet(d, key, val) ==
    PyDict([x \in (DOMAIN d.f) \cup {key} |-> IF x = key THEN val ELSE d.f[x]])

\* The for loop over the stats items q, starting from the dict stats.
RECURSIVE StatsLoop(_, _)
StatsLoop(q, stats) ==
    IF q = <<>> THEN stats
    ELSE LET s   == Head(q)
             key == DictGet(DictGet(s, "stat", EmptyDict), "name", None)
             val == DictGet(s, "base_stat", None)
         IN  IF key = Exc \/ val = Exc THEN Exc
             ELSE IF Truthy(key) /\ val.k = "int"
                  THEN StatsLoop(Tail(q), DictSet(stats, key.s, val))
                  ELSE StatsLoop(Tail(q), stats)

PokemonStats(j) ==
    LET ss == DictGet(j, "stats", PyList(<<>>))
    IN  IF ~Iterable(ss) THEN Exc ELSE StatsLoop(ss.q, EmptyDict)

PokemonArtwork(j) ==
    DictGet(DictGet(DictGet(DictGet(j, "sprites", EmptyDict),
                            "other", EmptyDict),
                    "official-artwork", EmptyDict),
            "front_default", None)

PokemonRecord(pid, j) ==
    LET name    == DictGet(j, "name", None)
        dex     == DictGet(j, "id", None)
        types   == PokemonTypes(j)
        stats   == PokemonStats(j)
        artwork == PokemonArtwork(j)
    IN  IF Exc \in {name, dex, types, stats, artwork} THEN Exc
        ELSE PyDict([name    |-> name,
                     dex     |-> dex,
                     types   |-> types,
                     stats   |-> stats,
                     artwork |-> artwork])

\* The try block of get_pokemon; resp answers the GET for identifier pid.
PokemonTry(pid, resp) ==
    IF resp = Exc THEN Exc
    ELSE IF resp.status # HttpOk THEN None
    ELSE LET j == ResponseJson(resp)
         IN  IF j = Exc THEN Exc ELSE PokemonRecord(pid, j)

\* The undecorated function for the draw pid.
get_pokemon(pid, resp) ==
    [val |-> ExceptReturnsNone(PokemonTry(pid, resp)), reqs |-> 1]

(***************************************************************************)
(* generate_report                                                         *)
(*                                                                         *)
(* A text is a sequence of tokens; " " and "\n" are the whitespace tokens. *)
(***************************************************************************)
PyText(t) == [k |-> "text", t |-> t]

Whitespace == {" ", "\n"}

RECURSIVE LStrip(_)
LStrip(t) ==
    IF t # <<>> /\ Head(t) \in Whitespace THEN LStrip(Tail(t)) ELSE t

RECURSIVE RStrip(_)
RStrip(t) ==
    IF t # <<>> /\ t[Len(t)] \in Whitespace
    THEN RStrip(SubSeq(t, 1, Len(t) - 1)) ELSE t

\* str.strip()
Strip(t) == RStrip(LStrip(t))

\* str(v) as an f-string field formats it.
Fmt(v) ==
    CASE v.k = "None" -> "None"
      [] v.k = "str"  -> v.s
      [] v.k = "int"  -> ToString(v.n)
      [] v.k = "dict" -> IF DOMAIN v.f = {} THEN "{}" ELSE "{..}"
      [] OTHER        -> "[..]"

\* ', '.join(q): TypeError on an item that is not a str.
RECURSIVE JoinComma(_)
JoinComma(q) ==
    IF q = <<>> THEN PyStr("")
    ELSE IF Head(q).k # "str" THEN Exc
    ELSE IF Tail(q) = <<>> THEN Head(q)
    ELSE LET rest == JoinComma(Tail(q))
         IN  IF rest = Exc THEN Exc ELSE PyStr(Head(q).s \o ", " \o rest.s)

KeyRequiredMsg == "OpenAI API Key required."

CallFailedPrefix == "OpenAI call failed: "

NoWeatherMarker == "- (no weather info)"

NoPokemonMarker == "- (no pokemon info)"

NoHabitMarker == "none"

AbsenceNote == "- without pokemon/weather info, still write a persuasive report."

SectionMarkers == <<"1)", "2)", "3)", "4)", "5)">>

COACH_STYLES == [spartan |-> "strict", mentor |-> "warm", gamemaster |-> "rpg"]

\* _coach_system_prompt: the persona, its guide and the five sections.
CoachSystemPrompt(style_label) ==
    [style    |-> style_label,
     guide    |-> IF style_label \in DOMAIN COACH_STYLES
                  THEN COACH_STYLES[style_label] ELSE "",
     sections |-> SectionMarkers]

\* weather_text: the labelled block, or the marker when weather is falsy.
WeatherText(weather) ==
    IF Truthy(weather)
    THEN <<"- city: " \o Fmt(weather.f.city),
           "- weather: " \o Fmt(weather.f.desc),
           "- temp: " \o Fmt(weather.f.temp_c) \o " / feels: "
               \o Fmt(weather.f.feels_like_c),
           "- humidity: " \o Fmt(weather.f.humidity) \o " / wind: "
               \o Fmt(weather.f.wind_mps)>>
    ELSE <<NoWeatherMarker>>

\* pokemon_text: the labelled block (Exc when the join raises), or the
\* marker when pokemon is falsy.
PokemonTextMutant(pokemon) ==
    PyList(<<"- name: None / dex: None", "- types: ", "- stats: None">>)

PokemonText(pokemon) ==
    IF Truthy(pokemon)
    THEN LET types == JoinComma(pokemon.f.types.q)
         IN  IF types = Exc THEN Exc
             ELSE PyList(<<"- name: " \o Fmt(pokemon.f.name) \o " / dex: "
                               \o Fmt(pokemon.f.dex),
                           "- types: " \o types.s,
                           "- stats: " \o Fmt(pokemon.f.stats)>>)
    ELSE PyList(<<NoPokemonMarker>>)

\* user_payload, line by line (Exc when building it raises).
UserPayload(habits_checked, mood, weather, pokemon) ==
    LET ptext == PokemonText(pokemon)
        done  == IF habits_checked # <<>>
                 THEN JoinComma([i \in 1..Len(habits_checked) |->
                                     PyStr(habits_checked[i])]).s
                 ELSE NoHabitMarker
    IN  IF ptext = Exc THEN Exc
        ELSE PyList(<<"[checkin]", "- done: " \o done,
                      "- mood: " \o ToString(mood), "[weather]">>
                    \o WeatherText(weather)
                    \o <<"[pokemon]">> \o ptext.q
                    \o <<AbsenceNote>>)

\* What client.responses.create does with the one request: it raises with
\* a description, or it answers with output_text (None or a text).
ServiceRaised(e) == [k |-> "exc", e |-> e]

ServiceAnswer(output_text) == [k |-> "resp", output_text |-> output_text]

\* The try block: (resp.output_text or "").strip(), None  /  None, error.
ReportTry(service) ==
    IF service.k = "exc"
    THEN [report |-> None, err |-> PyStr(CallFailedPrefix \o service.e)]
    ELSE [report |-> PyText(Strip(IF Truthy(service.output_text)
                                  THEN service.output_text.t ELSE <<>>)),
          err    |-> None]

NoRequest == [k |-> "norequest"]

\* generate_report: raised tells whether the call raised instead of
\* returning; reqs counts the calls of client.responses.create and request
\* is what was sent.
generate_report(openai_api_key, coach_style, habits_checked, mood, weather, pokemon, service) ==
    IF openai_api_key = ""
    THEN [raised |-> FALSE, report |-> None, err |-> PyStr(KeyRequiredMsg),
          reqs |-> 0, request |-> NoRequest]
    ELSE LET payload == UserPayload(habits_checked, mood, weather, pokemon)
             out     == ReportTry(service)
         IN  IF payload = Exc
             THEN [raised |-> TRUE, report |-> None, err |-> None,
                   reqs |-> 0, request |-> NoRequest]
             ELSE [raised |-> FALSE, report |-> out.report, err |-> out.err,
                   reqs |-> 1,
                   request |-> [k            |-> "request",
                                model        |-> "gpt-5-mini",
                                instructions |-> CoachSystemPrompt(coach_style),
                                input        |-> payload.q]]

(***************************************************************************)
(* The result area of the page (the body of "if btn:" after the call).     *)
(***************************************************************************)
KnownTypes == {"grass", "fire", "water", "poison", "electric"}

\* type_ko: mapping.get(t, t)
type_ko(t) ==
    IF t.k = "str" /\ t.s \in KnownTypes THEN PyStr("ko:" \o t.s) ELSE t

\* The creature card: the markdown line joins the translated type names.
PokemonCard(pokemon) ==
    LET types    == IF Truthy(pokemon.f.types) THEN pokemon.f.types.q ELSE <<>>
        types_ko == [i \in 1..Len(types) |-> type_ko(types[i])]
    IN  IF JoinComma(types_ko) = Exc THEN Exc ELSE PyStr("pokemon_card")

\* The sections written to the page, and whether the script stopped on an
\* unhandled exception.  gen is the result of generate_report.
RenderResults(weather, pokemon, gen) ==
    IF gen.raised THEN [sections |-> {}, raised |-> TRUE]
    ELSE IF Truthy(gen.err) THEN [sections |-> {"error"}, raised |-> FALSE]
    ELSE LET left  == IF Truthy(weather) THEN "weather_card" ELSE "weather_info"
             right == IF Truthy(pokemon) THEN PokemonCard(pokemon)
                      ELSE PyStr("pokemon_info")
         IN  IF right = Exc
             THEN [sections |-> {left}, raised |-> TRUE]
             ELSE [sections |-> {left, right.s, "report", "share"},
                   raised |-> FALSE]

(***************************************************************************)
(* st.cache_data: a map from the argument tuple of a call to the value it  *)
(* returned (None included) and the age of the entry in minutes.  An entry *)
(* answers calls until its age reaches the ttl, when it expires and leaves *)
(* the map.                                                                *)
(***************************************************************************)
\* ttl=60 * 10 seconds
WeatherTTL == 10

\* ttl=60 * 60 seconds
PokemonTTLMutant == WeatherTTL

PokemonTTL == 60

\* The granularity of time in SpecCache, in minutes.
TickStep == 5

EmptyCache == [x \in {} |-> None]

CacheHitMutant(cache, key) == FALSE

CacheHit(cache, key) == key \in DOMAIN cache

CachePutMutant(cache, key, val) ==
    IF val = None THEN cache
    ELSE [x \in (DOMAIN cache) \cup {key} |->
              IF x = key THEN [val |-> val, age |-> 0] ELSE cache[x]]

CachePut(cache, key, val) ==
    [x \in (DOMAIN cache) \cup {key} |->
         IF x = key THEN [val |-> val, age |-> 0] ELSE cache[x]]

\* The map after some minutes: its entries older, the expired ones gone.
CacheAged(cache, minutes, ttl) ==
    [x \in {y \in DOMAIN cache : cache[y].age + minutes < ttl} |->
         [cache[x] EXCEPT !.age = cache[x].age + minutes]]

\* The cache key of get_weather(city, api_key): every argument.
WeatherCacheKey(city, api_key) == <<city, api_key>>

\* get_pokemon() has no argument.
PokemonCacheKey == <<"get_pokemon">>

\* get_weather as decorated at its call site.
CachedWeather(cache, city, api_key, resp) ==
    LET key == WeatherCacheKey(city, api_key)
        r   == get_weather(city, api_key, resp)
    IN  IF CacheHit(cache, key)
        THEN [val |-> cache[key].val, reqs |-> 0, hit |-> TRUE, cache |-> cache]
        ELSE [val |-> r.val, reqs |-> r.reqs, hit |-> FALSE,
              cache |-> IF r.val = Exc THEN cache ELSE CachePut(cache, key, r.val)]

\* get_pokemon as decorated at its call site; pid is drawn on a miss only.
CachedPokemon(cache, pid, resp) ==
    LET r == get_pokemon(pid, resp)
    IN  IF CacheHit(cache, PokemonCacheKey)
        THEN [val |-> cache[PokemonCacheKey].val, reqs |-> 0, hit |-> TRUE,
              cache |-> cache]
        ELSE [val |-> r.val, reqs |-> r.reqs, hit |-> FALSE,
              cache |-> IF r.val = Exc THEN cache
                        ELSE CachePut(cache, PokemonCacheKey, r.val)]

(***************************************************************************)
(* The script: one render pass, and the passing of time between passes.    *)
(***************************************************************************)
CITIES == {"Seoul", "Busan", "Incheon", "Daegu", "Daejeon", "Gwangju",
           "Ulsan", "Suwon", "Changwon", "Jeju"}

HABITS == <<"wake", "water", "study", "exercise", "sleep">>

WeatherKeys == {"", "k1", "k2"}

OpenAIKeys == {"", "sk"}

\* checked_habits: the checked labels in catalog order.
CheckedHabits(S) ==
    LET Checked(h) == h \in S IN SelectSeq(HABITS, Checked)

\* generate_report was not called (the button was not pressed).
NotCalled ==
    [raised |-> FALSE, report |-> None, err |-> None, reqs |-> 0,
     request |-> NoRequest]

Idle == [k |-> "idle"]

\* wlog and plog remember, for each argument tuple, the execution of the
\* function body of the last 10 (get_weather) or 60 (get_pokemon) minutes, if
\* any: the value it returned, the requests it issued and its age.
LogPut(log, key, val, reqs) ==
    [x \in (DOMAIN log) \cup {key} |->
         IF x = key THEN [val |-> val, reqs |-> reqs, age |-> 0] ELSE log[x]]

\* The record of a pass whose fetch raised (lines 380-381 did not finish).
Aborted(city, openai_key, weather_key, btn, checked) ==
    [k |-> "pass", city |-> city, wkey |-> weather_key, okey |-> openai_key,
     btn |-> btn, checked |-> checked, weather |-> Exc, wreqs |-> 0, whit |-> FALSE, wlive |-> FALSE,
     pokemon |-> Exc, preqs |-> 0, phit |-> FALSE, pdraw |-> None,
     plive |-> FALSE, report |-> None, err |-> None, greqs |-> 0,
     graised |-> FALSE, request |-> NoRequest, sections |-> {}, raised |-> TRUE]

\* One execution of the script.  The two text inputs hold openai_key and
\* weather_key, the widgets hold city, coach_style, the set checked and mood,
\* btn tells whether the button was pressed; wresp, presp and service are
\* what the three services would answer, and pid is the draw of
\* random.randint should get_pokemon run.
RenderPass(openai_key, weather_key, city, coach_style, checked, mood, btn, wresp, pid, presp, service) ==
    LET w   == CachedWeather(weather_cache, city, weather_key, wresp)
        p   == CachedPokemon(pokemon_cache, pid, presp)
        gen == IF btn
               THEN generate_report(openai_key, coach_style,
                                    CheckedHabits(checked), mood,
                                    w.val, p.val, service)
               ELSE NotCalled
        out == IF btn THEN RenderResults(w.val, p.val, gen)
               ELSE [sections |-> {}, raised |-> FALSE]
    IN  /\ session_state' = [openai_key |-> openai_key,
                             weather_key |-> weather_key]
        /\ weather_cache' = w.cache
        /\ wlog' = IF w.hit \/ w.val = Exc THEN wlog
                   ELSE LogPut(wlog, <<city, weather_key>>, w.val, w.reqs)
        /\ IF w.val = Exc \/ p.val = Exc
           THEN /\ page' = Aborted(city, openai_key, weather_key, btn, checked)
                /\ UNCHANGED <<pokemon_cache, plog>>
           ELSE /\ pokemon_cache' = p.cache
                /\ plog' = IF p.hit THEN plog
                           ELSE LogPut(plog, PokemonCacheKey, p.val, p.reqs)
                /\ page' =
                     [k |-> "pass", city |-> city, wkey |-> weather_key,
                      okey |-> openai_key, btn |-> btn, checked |-> checked,
                      weather |-> w.val, wreqs |-> w.reqs, whit |-> w.hit,
                      wlive |-> get_weather(city, weather_key, wresp).val # None,
                      pokemon |-> p.val, preqs |-> p.reqs, phit |-> p.hit,
                      pdraw |-> IF p.hit THEN None ELSE PyInt(pid),
                      plive |-> get_pokemon(pid, presp).val # None,
                      report |-> gen.report, err |-> gen.err,
                      greqs |-> gen.reqs, graised |-> gen.raised,
                      request |-> gen.request,
                      sections |-> out.sections, raised |-> out.raised]
        /\ UNCHANGED fx

\* Some minutes pass: every cached entry and logged execution ages.  The
\* logs keep an execution for the windows the memoization is stated with,
\* 10 and 60 minutes, whatever the caches do.
Tick(minutes) ==
    /\ weather_cache' = CacheAged(weather_cache, minutes, WeatherTTL)
    /\ pokemon_cache' = CacheAged(pokemon_cache, minutes, PokemonTTL)
    /\ wlog' = CacheAged(wlog, minutes, 10)
    /\ plog' = CacheAged(plog, minutes, 60)
    /\ UNCHANGED <<session_state, page, fx>>

FxIdle == [k |-> "idle"]

\* After start-up: nothing cached, the keys as the environment gives them,
\* no pass run yet.
Init ==
    /\ weather_cache = EmptyCache
    /\ pokemon_cache = EmptyCache
    /\ session_state \in [openai_key : OpenAIKeys, weather_key : WeatherKeys]
    /\ page = Idle
    /\ wlog = EmptyCache
    /\ plog = EmptyCache
    /\ fx = FxIdle

(***************************************************************************)
(* What the services may answer.                                           *)
(***************************************************************************)
Missing == [k |-> "missing"]

\* A JSON object from a record of fields; a Missing field has no key.
Obj(f) == PyDict([x \in {y \in DOMAIN f : f[y] # Missing} |-> f[x]])

FullMain ==
    PyDict([temp |-> PyInt(21), feels_like |-> PyInt(19), humidity |-> PyInt(60)])

FullFirst == PyDict([description |-> PyStr("clear sky"), icon |-> PyStr("01d")])

FullWind == PyDict([speed |-> PyInt(3)])

FullWeatherBody ==
    PyDict([main |-> FullMain, weather |-> PyList(<<FullFirst>>), wind |-> FullWind])

MainShapes ==
    {Missing, None, PyInt(0)}
    \cup {Obj([temp       |-> IF "t" \in S THEN PyInt(21) ELSE Missing,
               feels_like |-> IF "f" \in S THEN PyInt(19) ELSE Missing,
               humidity   |-> IF "h" \in S THEN PyInt(60) ELSE Missing]) :
              S \in SUBSET {"t", "f", "h"}}

FirstShapes ==
    {None, EmptyDict, FullFirst,
     PyDict([description |-> PyStr("clear sky")]),
     PyDict([icon |-> PyStr("01d")])}

WeatherListShapes ==
    {Missing, None, PyInt(0), PyList(<<>>)}
    \cup {PyList(<<e>>) : e \in FirstShapes}

WindShapes == {Missing, None, PyInt(0), EmptyDict, FullWind}

WeatherBodies ==
    {Obj([main |-> m, weather |-> w, wind |-> d]) :
         m \in MainShapes, w \in WeatherListShapes, d \in WindShapes}

\* Transport error or timeout, a non-200 status, a 200 that is not JSON, a
\* 200 whose JSON is not an object, a 200 with an object.
WeatherResponses ==
    {Exc, Response(401, NotJson), Response(404, FullWeatherBody),
     Response(HttpOk, NotJson), Response(HttpOk, PyList(<<>>))}
    \cup {Response(HttpOk, b) : b \in WeatherBodies}

TypeItem(name) == PyDict([type |-> PyDict([name |-> name])])

TypeListShapes ==
    {Missing, None,
     PyList(<<>>),
     PyList(<<TypeItem(PyStr("grass"))>>),
     PyList(<<TypeItem(PyStr("grass")), TypeItem(PyStr("poison"))>>),
     PyList(<<EmptyDict, TypeItem(PyStr("fire"))>>),
     PyList(<<TypeItem(None)>>),
     PyList(<<None>>),
     PyList(<<PyDict([type |-> EmptyDict])>>),
     PyList(<<PyDict([type |-> None])>>)}

StatItem(name, base) ==
    PyDict([stat |-> PyDict([name |-> PyStr(name)]), base_stat |-> base])

FullStats == PyList(<<StatItem("hp", PyInt(45)), StatItem("attack", PyInt(49))>>)

StatListShapes ==
    {Missing, None, FullStats,
     PyList(<<StatItem("hp", PyInt(45)), StatItem("hp", PyInt(46))>>),
     PyList(<<StatItem("hp", PyStr("45")), StatItem("speed", PyInt(45))>>),
     PyList(<<PyDict([base_stat |-> PyInt(45)])>>),
     PyList(<<PyDict([stat |-> None, base_stat |-> PyInt(45)])>>),
     PyList(<<None>>)}

FullSprites == PyDict([other |-> PyDict([x \in {"official-artwork"} |->
                   PyDict([front_default |-> PyStr("https://img/art.png")])])])

SpriteShapes ==
    {Missing, None, EmptyDict, FullSprites,
     PyDict([other |-> None]),
     PyDict([other |-> EmptyDict]),
     PyDict([other |-> PyDict([x \in {"official-artwork"} |-> None])]),
     PyDict([other |-> PyDict([x \in {"official-artwork"} |-> EmptyDict])])}

\* Another identifier than pid, still in range.
OtherPid(pid) == (pid % MaxPid) + 1

IdShapes(pid) == {Missing, PyInt(pid), PyInt(OtherPid(pid))}

PokemonBody(name, id, types, stats, sprites) ==
    Obj([name |-> name, id |-> id, types |-> types, stats |-> stats,
         sprites |-> sprites])

FullTypes == PyList(<<TypeItem(PyStr("grass")), TypeItem(PyStr("poison"))>>)

FullPokemonBody(pid) ==
    PokemonBody(PyStr("bulbasaur"), PyInt(pid), FullTypes, FullStats, FullSprites)

\* Every shape of name, id and types; the stats and the sprites are varied
\* one at a time.
PokemonBodies(pid) ==
    {PokemonBody(n, i, t, FullStats, FullSprites) :
         n \in {Missing, PyStr("bulbasaur")}, i \in IdShapes(pid),
         t \in TypeListShapes}
    \cup {PokemonBody(PyStr("bulbasaur"), PyInt(pid), FullTypes, ss, FullSprites) :
              ss \in StatListShapes}
    \cup {PokemonBody(PyStr("bulbasaur"), PyInt(pid), FullTypes, FullStats, sp) :
              sp \in SpriteShapes}

PokemonResponses(pid) ==
    {Exc, Response(404, NotJson), Response(HttpOk, NotJson),
     Response(HttpOk, PyList(<<>>))}
    \cup {Response(HttpOk, b) : b \in PokemonBodies(pid)}

\* The service fails, or it generates nothing, blanks only, or a padded
\* five-section report.
FiveSectionText == <<"\n", "1)", "2)", "3)", "4)", "5)", " ", "\n">>

ServiceOutcomes ==
    {ServiceRaised("status 500"), ServiceAnswer(None),
     ServiceAnswer(PyText(<<" ", "\n">>)),
     ServiceAnswer(PyText(FiveSectionText))}

(***************************************************************************)
(* Spec: the page, with every input of a pass and what the services answer.*)
(***************************************************************************)
HabitSets == {{}, {"wake", "water"}}

MoodSample == {9}

\* The creature endpoint: down, well-formed, a type without a name.
PagePokemonResponses(pid) ==
    {Exc, Response(HttpOk, FullPokemonBody(pid)),
     Response(HttpOk, PokemonBody(PyStr("bulbasaur"), PyInt(pid),
                                  PyList(<<TypeItem(None)>>), FullStats,
                                  FullSprites))}

PageWeatherResponses == {Exc, Response(HttpOk, FullWeatherBody)}

\* Passes with the button pressed.
PressPasses ==
    \E openai_key \in OpenAIKeys, weather_key \in {"", "k1"},
       checked \in HabitSets, mood \in MoodSample,
       wresp \in PageWeatherResponses, service \in ServiceOutcomes :
        \E presp \in PagePokemonResponses(25) :
            RenderPass(openai_key, weather_key, "Seoul", "mentor", checked,
                       mood, TRUE, wresp, 25, presp, service)

\* Passes caused by any other interaction.
PlainPasses ==
    \E openai_key \in OpenAIKeys, weather_key \in {"", "k1"},
       wresp \in PageWeatherResponses :
        \E presp \in PagePokemonResponses(25) :
            RenderPass(openai_key, weather_key, "Seoul", "mentor", {}, 6,
                       FALSE, wresp, 25, presp, ServiceAnswer(None))

\* An hour passes: everything cached has expired.
Next == Tick(PokemonTTL) \/ PressPasses \/ PlainPasses

Spec == Init /\ [][Next]_vars

(***************************************************************************)
(* SpecCache: passes without the button, for the two memoized fetches over *)
(* time.                                                                   *)
(***************************************************************************)
CacheArgs == {<<"Seoul", "k1">>, <<"Seoul", "k2">>, <<"Busan", "k1">>}

CachePasses ==
    \E args \in CacheArgs,
       wresp \in {Response(404, NotJson), Response(HttpOk, FullWeatherBody)},
       pid \in {MinPid, MaxPid} :
        \E presp \in {Exc, Response(HttpOk, FullPokemonBody(pid))} :
            RenderPass("", args[2], args[1], "mentor", {}, 6, FALSE,
                       wresp, pid, presp, ServiceAnswer(None))

NextCache == Tick(TickStep) \/ CachePasses

InitCache == Init /\ session_state.openai_key = ""

SpecCache == InitCache /\ [][NextCache]_vars

(***************************************************************************)
(* SpecFetch: the two undecorated fetch functions, applied once to every   *)
(* answer of their endpoint.                                               *)
(***************************************************************************)
Returned(op, city, api_key, pid, resp, r) ==
    [k |-> "ret", op |-> op, city |-> city, api_key |-> api_key,
     pid |-> pid, resp |-> resp, val |-> r.val, reqs |-> r.reqs]

CallGetWeather(city, api_key, resp) ==
    /\ fx = FxIdle
    /\ fx' = Returned("get_weather", city, api_key, 0, resp,
                      get_weather(city, api_key, resp))
    /\ UNCHANGED <<weather_cache, pokemon_cache, session_state, page, wlog, plog>>

CallGetPokemon(pid, resp) ==
    /\ fx = FxIdle
    /\ fx' = Returned("get_pokemon", "", "", pid, resp, get_pokemon(pid, resp))
    /\ UNCHANGED <<weather_cache, pokemon_cache, session_state, page, wlog, plog>>

FetchWeather ==
    /\ fx = FxIdle
    /\ \E city \in {"Seoul", "Jeju"}, api_key \in {"", "k1"},
          resp \in WeatherResponses : CallGetWeather(city, api_key, resp)

FetchPokemon ==
    /\ fx = FxIdle
    /\ \E pid \in Pids : \E resp \in PokemonResponses(pid) :
          CallGetPokemon(pid, resp)

NextFetch == FetchWeather \/ FetchPokemon

InitFetch == Init /\ session_state = [openai_key |-> "", weather_key |-> ""]

SpecFetch == InitFetch /\ [][NextFetch]_vars

(***************************************************************************)
(* Properties                                                              *)
(***************************************************************************)
PassDone == page.k = "pass"

\* C1: with an empty credential get_weather returns None and
\* generate_report returns (None, the key-required message), and neither
\* issues a request, whatever the other inputs are.
C1_EmptyCredentialNoCall ==
    PassDone =>
        /\ page.wkey = "" => page.weather = None /\ page.wreqs = 0
        /\ (page.btn /\ page.okey = "") =>
               /\ ~page.graised
               /\ page.report = None
               /\ page.err = PyStr(KeyRequiredMsg)
               /\ page.greqs = 0
               /\ page.request = NoRequest

C1_Witness ==
    /\ PassDone /\ page.btn /\ ~page.raised
    /\ page.wkey = "" /\ page.okey = "" /\ page.wlive = FALSE
    /\ page.pokemon # None /\ page.preqs = 1
    /\ page.err = PyStr(KeyRequiredMsg)

FetchDone == fx.k = "ret"

\* C2: get_weather and get_pokemon never raise; they return a record or
\* None, and None on a transport error or a status other than 200.
C2_FetchNeverRaises ==
    FetchDone =>
        /\ fx.val # Exc
        /\ fx.val = None \/ fx.val.k = "dict"
        /\ (fx.resp = Exc \/ fx.resp.status # HttpOk) => fx.val = None
        /\ fx.reqs <= 1

C2_Witness ==
    /\ FetchDone /\ fx.op = "get_pokemon" /\ fx.reqs = 1
    /\ fx.resp # Exc /\ fx.resp.status = HttpOk /\ fx.resp.body # NotJson
    /\ fx.resp.body.k = "dict" /\ "types" \in DOMAIN fx.resp.body.f
    /\ fx.resp.body.f.types = None
    /\ fx.val = None

\* C3: with a non-empty key generate_report never raises and sends exactly
\* one request; exactly one of the text and the error is None.
C3_ReportNeverRaises ==
    (PassDone /\ page.btn /\ page.okey # "") =>
        /\ ~page.graised
        /\ page.greqs = 1
        /\ (page.report = None) # (page.err = None)

\* C6: get_pokemon returns None or a record whose dex is the drawn pid.
C6_DexIsDraw ==
    (FetchDone /\ fx.op = "get_pokemon") =>
        fx.val = None \/ fx.val.f.dex = PyInt(fx.pid)

\* C8: in a pass with the button pressed, each of the three sections is
\* rendered from its own result: the card or its placeholder for the
\* weather and for the creature, the report or its error message.
C8_FailureIsolation ==
    (PassDone /\ page.btn) =>
        /\ ~page.raised
        /\ (IF page.weather # None THEN "weather_card" ELSE "weather_info")
               \in page.sections
        /\ (IF page.pokemon # None THEN "pokemon_card" ELSE "pokemon_info")
               \in page.sections
        /\ (IF page.err # None THEN "error" ELSE "report") \in page.sections

Contains(lines, line) == \E i \in 1..Len(lines) : lines[i] = line

\* The tokens of m occur in t in this order.
RECURSIVE InOrder(_, _)
InOrder(m, t) ==
    IF m = <<>> THEN TRUE
    ELSE IF t = <<>> THEN FALSE
    ELSE IF Head(m) = Head(t) THEN InOrder(Tail(m), Tail(t))
    ELSE InOrder(m, Tail(t))

\* generate_report is called with a key and without weather and creature.
NoDataReport ==
    /\ PassDone /\ page.btn /\ page.okey # ""
    /\ page.weather = None /\ page.pokemon = None

\* The one request, carrying the no-data markers and the five sections.
NoDataRequest ==
    /\ ~page.graised
    /\ page.greqs = 1
    /\ page.request # NoRequest
    /\ Contains(page.request.input, NoWeatherMarker)
    /\ Contains(page.request.input, NoPokemonMarker)
    /\ Contains(page.request.input, AbsenceNote)
    /\ page.checked = {} =>
           Contains(page.request.input, "- done: " \o NoHabitMarker)
    /\ page.request.instructions.sections = SectionMarkers

\* C9, as claimed: the request is sent with the markers and the result is a
\* non-empty text with the five sections.
C9_Original ==
    NoDataReport =>
        /\ NoDataRequest
        /\ page.report # None
        /\ page.report.t # <<>>
        /\ InOrder(SectionMarkers, page.report.t)

\* C9, amended: the request is sent with the markers; the result is the
\* generated text, trimmed and possibly empty, or an error when the service
\* fails.
C9_Amended ==
    NoDataReport =>
        /\ NoDataRequest
        /\ \/ /\ page.err = None
              /\ page.report # None
              /\ page.report.t = <<>> \/
                     /\ Head(page.report.t) \notin Whitespace
                     /\ page.report.t[Len(page.report.t)] \notin Whitespace
           \/ /\ page.report = None
              /\ page.err # None /\ page.err.k = "str"

C9_Witness ==
    /\ NoDataReport /\ NoDataRequest
    /\ page.checked = {}
    /\ page.report = PyText(<<>>)
    /\ page.sections = {"weather_info", "pokemon_info", "report", "share"}

(***************************************************************************)
(* C7: extraction of the weather fields from a 200 response.               *)
(***************************************************************************)
ContainerOf(body, name) ==
    IF name \in DOMAIN body.f THEN body.f[name] ELSE Missing

FirstOf(list) ==
    IF list.k = "list" /\ Len(list.q) > 0 THEN list.q[1] ELSE Missing

FieldOf(container, field) ==
    IF container.k = "dict" /\ field \in DOMAIN container.f
    THEN container.f[field] ELSE None

\* The record with every sub-field that the body has, None for the others.
ExpectedRecord(city, body) ==
    PyDict([city         |-> PyStr(city),
            temp_c       |-> FieldOf(ContainerOf(body, "main"), "temp"),
            feels_like_c |-> FieldOf(ContainerOf(body, "main"), "feels_like"),
            humidity     |-> FieldOf(ContainerOf(body, "main"), "humidity"),
            desc         |-> FieldOf(FirstOf(ContainerOf(body, "weather")),
                                     "description"),
            wind_mps     |-> FieldOf(ContainerOf(body, "wind"), "speed"),
            icon         |-> FieldOf(FirstOf(ContainerOf(body, "weather")),
                                     "icon")])

\* A 200 answer to a call that fetched, whose body is a JSON object.
WeatherFetched ==
    /\ FetchDone /\ fx.op = "get_weather" /\ fx.api_key # ""
    /\ fx.resp # Exc /\ fx.resp.status = HttpOk
    /\ fx.resp.body # NotJson /\ fx.resp.body.k = "dict"

\* The containers are missing, null, empty or of the documented kind.
DocumentedOrEmpty(body) ==
    /\ ContainerOf(body, "main").k \in {"missing", "None", "dict"}
    /\ ContainerOf(body, "wind").k \in {"missing", "None", "dict"}
    /\ ContainerOf(body, "weather").k \in {"missing", "None", "list"}

\* C7: whatever sub-field or container is missing, empty or null in the 200
\* body, the record is returned, with city and the fields that are there.
C7_FieldOnlyAbsent ==
    (WeatherFetched /\ DocumentedOrEmpty(fx.resp.body)) =>
        fx.val = ExpectedRecord(fx.city, fx.resp.body)

(***************************************************************************)
(* Memoization over time.  A key is in wlog (plog) exactly when the body   *)
(* of get_weather (get_pokemon) ran for it less than 10 (60) minutes ago.  *)
(* A step of SpecCache that changes the state is either the passing of     *)
(* time or a pass, never both: a pass is one more call of each function,   *)
(* its results in page'.                                                   *)
(***************************************************************************)
PassStep == ~Tick(TickStep)

WeatherArgs(pg) == <<pg.city, pg.wkey>>

\* The call of this pass and the execution first, less than 10 minutes
\* before it: one request at most between them, and the call returns what
\* first returned.
AnsweredFrom(first, pg) ==
    /\ first.reqs + pg.wreqs <= 1
    /\ pg.weather = first.val

\* C4, as claimed: a call for a city within 10 minutes of a fetch for the
\* same city, whatever the credentials of the two, sends no second request
\* and returns the record of the first.
C4_Original ==
    [][PassStep =>
          \A api_key \in WeatherKeys :
              <<page'.city, api_key>> \in DOMAIN wlog =>
                  AnsweredFrom(wlog[<<page'.city, api_key>>], page')]_vars

\* C4, amended: the memo is keyed by city and credential.  No call sends
\* more than one request, and a call within 10 minutes of a fetch with the
\* same city and the same credential sends none and returns the record of
\* that fetch.
C4_Amended ==
    [][PassStep =>
          /\ page'.wreqs \in {0, 1}
          /\ WeatherArgs(page') \in DOMAIN wlog =>
                 AnsweredFrom(wlog[WeatherArgs(page')], page')]_vars

C4_Witness ==
    /\ PassDone /\ page.whit /\ page.wreqs = 0
    /\ page.weather # None /\ page.weather.f.city = PyStr(page.city)
    /\ WeatherArgs(page) \in DOMAIN wlog
    /\ wlog[WeatherArgs(page)].age = TickStep
    /\ wlog[WeatherArgs(page)].reqs = 1
    /\ \E other \in DOMAIN weather_cache :
           other # WeatherArgs(page) /\ other[1] = page.city

\* C5: while the creature drawn by a call is less than 60 minutes old, every
\* pass gets that same result without a draw and without a request; a new
\* draw is made only once it has expired.
C5_CreatureMemo ==
    [][PassStep =>
          /\ PokemonCacheKey \in DOMAIN plog =>
                 /\ page'.pokemon = plog[PokemonCacheKey].val
                 /\ page'.pdraw = None
                 /\ page'.preqs = 0
          /\ page'.pdraw # None => PokemonCacheKey \notin DOMAIN plog]_vars

C5_Witness ==
    /\ PassDone /\ page.phit /\ page.pdraw = None /\ page.preqs = 0
    /\ page.pokemon # None
    /\ PokemonCacheKey \in DOMAIN plog
    /\ plog[PokemonCacheKey].age = PokemonTTL - TickStep
    /\ page.pokemon.f.dex # PyInt(MinPid)

\* C10: a None returned by a fetch is memoized like a record: within the
\* ttl a call with the same arguments returns None without a request, even
\* when the service would answer again.
C10_AbsentMemoized ==
    [][PassStep =>
          /\ (/\ WeatherArgs(page') \in DOMAIN wlog
              /\ wlog[WeatherArgs(page')].val = None) =>
                 page'.weather = None /\ page'.wreqs = 0
          /\ (/\ PokemonCacheKey \in DOMAIN plog
              /\ plog[PokemonCacheKey].val = None) =>
                 page'.pokemon = None /\ page'.preqs = 0]_vars

C10_Witness ==
    /\ PassDone
    /\ page.whit /\ page.weather = None /\ page.wreqs = 0 /\ page.wlive
    /\ wlog[WeatherArgs(page)].reqs = 1
    /\ wlog[WeatherArgs(page)].age = TickStep
    /\ page.phit /\ page.pokemon = None /\ page.preqs = 0 /\ page.plive
    /\ plog[PokemonCacheKey].age = TickStep

====
